---------------------------- MODULE Spec2Model ----------------------------
(***************************************************************************)
(* A model of the HR research pipeline's core: the content scorer          *)
(* (ContentScorer), the content store (Database.insertContentItem,         *)
(* Database.searchContentItems) and the source selector                    *)
(* (ReportGenerator.findRelevantSources).                                  *)
(*                                                                         *)
(* Numbers.  The code computes scores in floating point.  The model keeps  *)
(* them in fixed point: a sub-score is an integer number of thousandths    *)
(* (0.70 is 700), the composite score returned by the scorer is an integer *)
(* number of ten-thousandths (so that 0.4*a + 0.3*b + 0.2*c + 0.1*d is the *)
(* exact integer 4a + 3b + 2c + d), and a score stored in a NUMERIC(3,2)   *)
(* column is an integer number of hundredths.                              *)
(*                                                                         *)
(* Text.  A text is a sequence of lowercase words (the words between       *)
(* single spaces).  Each regular expression of the scorer is modelled by   *)
(* the number of matches it has in each word of a fixed vocabulary, and    *)
(* for the patterns that span two words, by the adjacent pairs that match. *)
(*                                                                         *)
(* Time.  Dates are whole days.                                            *)
(***************************************************************************)
EXTENDS Integers, Sequences, FiniteSets, TLC

VARIABLES
    now,            \* the wall clock (new Date(), the store's now()), in days
    item,           \* SpecScore: the raw item handed to scoreContent, or <<>>
    label,          \* SpecScore: the source label handed to scoreContent
    first,          \* SpecScore: the result of the first scoreContent call
    second,         \* SpecScore: the result of a later scoreContent call on the same item
    content_items,  \* the rows of table content_items, in insertion order
    collectors,     \* SpecStore: where each collection workflow is in processAndStore
    lastOp,         \* SpecStore: the insertContentItem call made last, or <<>>
    lastApplied,    \* SpecStore: per URL, the upsert that returned last, or <<>>
    failed,         \* SpecStore: the upserts that threw
    selection,      \* SpecSelect: the call findRelevantSources made last, or <<>>
    extraction,     \* SpecCite: the texts and sources handed to the citation
                    \* extractor and the confidence estimator, with their results
    reports,        \* the rows of table reports, in insertion order
    citations,      \* the rows of table citations, in insertion order
    run,            \* SpecReport: where the generateReport invocation is
    calls,          \* SpecReport: the external calls the invocation made, in order
    query,          \* SpecQuery: where the Database.query call is, and its attempts
    chat            \* SpecChat: where handleMessage is, and the events it yielded

scoreVars == <<item, label, first, second>>

storeVars == <<collectors, lastOp, lastApplied, failed>>

reportVars == <<extraction, reports, citations, run, calls>>

chatVars == <<query, chat>>

vars == <<now, scoreVars, content_items, storeVars, selection, reportVars, chatVars>>

None == "none"

(***************************************************************************)
(* Bounds of the model.                                                    *)
(***************************************************************************)
MaxBodyLen == 1     \* the body of a raw item has at most this many words
MaxTicks == 2       \* the clock advances at most this many times
PadWords == 400     \* the number of plain words the word "LOREM" stands for

(***************************************************************************)
(* Helpers on sequences and numbers.                                       *)
(***************************************************************************)
Min(a, b) == IF a < b THEN a ELSE b

Max(a, b) == IF a > b THEN a ELSE b

RECURSIVE Sum(_)
Sum(s) == IF s = <<>> THEN 0 ELSE Head(s) + Sum(Tail(s))

\* The number of places of text c that hold a word of ws.
CountIn(c, ws) == Cardinality({i \in 1..Len(c) : c[i] \in ws})

SeqsUpTo(S, n) == UNION {[1..k -> S] : k \in 0..n}

(***************************************************************************)
(* The vocabulary.  Each word stands for itself, but for                   *)
(*   "INR500"  the text  ₹500                                              *)
(*   "QUOTE"   a double-quoted text of 20 or more characters, no space     *)
(*   "LOREM"   PadWords plain words (a long body), more than 300           *)
(*             characters                                                  *)
(*   ""        the empty text between two consecutive spaces               *)
(***************************************************************************)
Vocab ==
    {"hr", "india", "design", "labour", "code", "lakh", "5", "15%",
     "INR500", "2021", "survey", "QUOTE", "LOREM"}

\* The number of whitespace-delimited words a word of the vocabulary is.
WordsIn(w) == IF w = "" THEN 0 ELSE IF w = "LOREM" THEN PadWords ELSE 1


(***************************************************************************)
(* The raw item (RawContentItem) and the text scoreContent scans.          *)
(***************************************************************************)
\* An optional text (snippet, content) that is absent is modelled like the
\* empty text <<>>: every use in the code is `x || ...`, which treats both alike.
\* An optional date is <<>> when absent and <<day>> when present.
Field(t) == IF t = <<>> THEN <<"">> ELSE t

\* `${item.title} ${item.snippet || ''} ${item.content || ''}`.toLowerCase(),
\* as the words between its single spaces.
ContentOf(it) == Field(it.title) \o Field(it.snippet) \o Field(it.content)

NonEmpty(c) == SelectSeq(c, LAMBDA w : w # "")

\* content.split(/\s+/).length: a text that starts or ends with white space
\* yields an empty first or last element.
SplitLength(c) ==
    Sum([i \in 1..Len(c) |-> WordsIn(c[i])])
    + (IF c[1] = "" THEN 1 ELSE 0)
    + (IF c[Len(c)] = "" THEN 1 ELSE 0)

\* The number of places where word a is followed, after one space, by word b.
Adjacent(c, a, b) ==
    Cardinality({i \in 1..(Len(c) - 1) : c[i] = a /\ c[i + 1] = b})

EndsInDigit(w) == w \in {"5", "INR500", "2021"}

\* Matches of /\d+\s*(?:lakh|crore|million|billion)/gi: a word ending in a
\* digit followed, after any white space, by "lakh".
CurrencyWordMatches(c) ==
    LET d == NonEmpty(c)
    IN  Cardinality({i \in 1..(Len(d) - 1) : EndsInDigit(d[i]) /\ d[i + 1] = "lakh"})

\* Matches of the \bkeyword\b patterns built from indianKeywords ("₹500"
\* has no match: there is no word boundary next to "₹").
KeywordMatches(c) ==
    CountIn(c, {"india", "lakh"}) + Adjacent(c, "labour", "code")

Includes(c, ws) == \E i \in 1..Len(c) : c[i] \in ws

PercentageMatches(c) == CountIn(c, {"15%"})

CurrencyInrMatches(c) == CountIn(c, {"INR500"})

\* Matches of /\b(?:19|20)\d{2}\b/g.
YearMatches(c) == CountIn(c, {"2021"})

\* Matches of /\b\d{1,3}(?:,\d{3})*\b/g ("2021" has none).
NumberMatches(c) == CountIn(c, {"5", "15%", "INR500"})

QuoteMatches(c) == CountIn(c, {"QUOTE"})

StatisticsMatches(c) == CountIn(c, {"survey"})

(***************************************************************************)
(* ContentScorer.                                                          *)
(***************************************************************************)
HalfLife == 180

\* JavaScript's a || b on optional texts: an absent or empty text is falsy.
Truthy(t) == t # <<>>

OrElse(a, b) == IF Truthy(a) THEN a ELSE b

\* The lookup table of domain authorities, in thousandths.
domainScores == [d \in {"default"} |-> 700]

\* new URL(url).hostname.toLowerCase(), or 'unknown' when the URL does not parse.
extractDomain(url) ==
    CASE url = "https://pib.gov.in/a" -> "pib.gov.in"
      [] url = "https://example.com/b" -> "example.com"
      [] OTHER -> "unknown"

calculateDomainAuthority(domain) ==
    IF domain \in DOMAIN domainScores
    THEN domainScores[domain]
    ELSE domainScores["default"]

calculateIndianContext(content) ==
    LET totalWords == SplitLength(content)
        indianWordCount == KeywordMatches(content)
        \* Math.min(1.0, indianWordCount / (totalWords * 0.01)), in thousandths
        keywordDensity ==
            IF totalWords = 0 THEN 0
            ELSE Min(1000, (indianWordCount * 100000) \div totalWords)
        score ==
            keywordDensity
            + (IF Includes(content, {"india"}) THEN 200 ELSE 0)
            + (IF Includes(content, {"design"}) THEN 300 ELSE 0)
            + (IF Adjacent(content, "labour", "code") > 0 THEN 200 ELSE 0)
            + (IF Includes(content, {"INR500", "lakh"}) THEN 150 ELSE 0)
    IN  IF totalWords = 0 THEN 0 ELSE Min(1000, score)

\* Math.pow(0.5, ageInDays / halfLife) in thousandths, for an age of a whole
\* number of half-lives (exact down to 0.125; below it the floor is clamped
\* away by calculateFreshness).
RECURSIVE Pow05(_)
Pow05(ageInDays) ==
    IF ageInDays <= 0
    THEN 1000 * 2 ^ ((0 - ageInDays) \div HalfLife)
    ELSE Pow05(ageInDays - HalfLife) \div 2

\* A scorer that forgets to clamp the decayed value.
calculateFreshnessUnclamped(published_at, clock) ==
    IF published_at = <<>> THEN 500 ELSE Pow05(clock - published_at[1])

\* A scorer that reads an absent date as the epoch, new Date(null), here day 0.
calculateFreshnessEpoch(published_at, clock) ==
    Max(100, Min(1000, Pow05(clock - (IF published_at = <<>> THEN 0 ELSE published_at[1]))))

calculateFreshness(published_at, clock) ==
    IF published_at = <<>>
    THEN 500
    ELSE LET ageInDays == clock - published_at[1]
             freshness == Pow05(ageInDays)
         IN  Max(100, Min(1000, freshness))

calculateExtractability(content) ==
    LET score ==
            300
            + (IF PercentageMatches(content) >= 1 THEN 200 ELSE 0)
            + (IF CurrencyInrMatches(content) >= 1 THEN 150 ELSE 0)
            + (IF CurrencyWordMatches(content) >= 1 THEN 150 ELSE 0)
            + (IF YearMatches(content) >= 2 THEN 100 ELSE 0)
            + (IF NumberMatches(content) >= 3 THEN 100 ELSE 0)
            + (IF QuoteMatches(content) >= 1 THEN 50 ELSE 0)
            + (IF StatisticsMatches(content) >= 1 THEN 100 ELSE 0)
    IN  Min(1000, score)

hasStatistics(content) ==
    \/ PercentageMatches(content) >= 1
    \/ CurrencyInrMatches(content) >= 1
    \/ CurrencyWordMatches(content) >= 1
    \/ StatisticsMatches(content) >= 1

hasDates(content) == YearMatches(content) >= 1

hasNumbers(content) == NumberMatches(content) >= 1

\* text.trim().split(/\s+/).filter(word => word.length > 0).length
countWords(text) ==
    IF ~Truthy(text) THEN 0 ELSE Sum([i \in 1..Len(text) |-> WordsIn(text[i])])

\* A text of more than maxLength = 300 characters (one that holds "LOREM")
\* is cut there and "..." is appended.
createSnippet(text) ==
    IF ~Truthy(text) THEN <<>>
    ELSE IF \E i \in 1..Len(text) : text[i] = "LOREM"
    THEN LET k == CHOOSE i \in 1..Len(text) :
                      /\ text[i] = "LOREM"
                      /\ \A j \in 1..(i - 1) : text[j] # "LOREM"
         IN  SubSeq(text, 1, k - 1) \o <<"LOREM...">>
    ELSE text

RECURSIVE JoinWords(_)
JoinWords(text) ==
    IF text = <<>> THEN ""
    ELSE IF Len(text) = 1 THEN text[1]
    ELSE text[1] \o " " \o JoinWords(Tail(text))

\* crypto.createHash('md5').update(`${title}|${url}`).digest('hex'): the digest
\* is modelled as collision-free, so it is named by the text it digests.
generateContentHash(title, url) == <<"md5", JoinWords(title) \o "|" \o url>>

getSourceUrl(source) == "https://search-based-content.com"

\* A scorer that swaps the weights of domain authority and topical context.
compositeSwappedWeights(domain_authority, indian_context, freshness, extractability) ==
    3 * domain_authority + 4 * indian_context + 2 * freshness + 1 * extractability

\* 0.4 * domain_authority + 0.3 * indian_context + 0.2 * freshness +
\* 0.1 * extractability, in ten-thousandths.
compositeScore(domain_authority, indian_context, freshness, extractability) ==
    4 * domain_authority + 3 * indian_context + 2 * freshness + 1 * extractability

scoreContent(it, source, clock) ==
    LET domain == extractDomain(it.url)
        content == ContentOf(it)
        domain_authority == calculateDomainAuthority(domain)
        indian_context == calculateIndianContext(content)
        freshness == calculateFreshness(it.published_at, clock)
        extractability == calculateExtractability(content)
        composite_score ==
            compositeScore(domain_authority, indian_context, freshness, extractability)
    IN  [ components |->
            [ domain_authority |-> domain_authority,
              indian_context |-> indian_context,
              freshness |-> freshness,
              extractability |-> extractability ],
          scored_item |->
            [ source |-> source,
              source_url |-> getSourceUrl(source),
              title |-> it.title,
              url |-> it.url,
              content_hash |-> generateContentHash(it.title, it.url),
              snippet |-> OrElse(it.snippet, createSnippet(OrElse(it.content, it.title))),
              full_content |-> OrElse(it.content, <<>>),
              author |-> it.author,
              published_at |-> IF it.published_at = <<>> THEN <<clock>> ELSE it.published_at,
              language |-> "en",
              domain_authority |-> domain_authority,
              indian_context_score |-> indian_context,
              freshness_score |-> freshness,
              extractability_score |-> extractability,
              composite_score |-> composite_score,
              has_statistics |-> hasStatistics(content),
              has_dates |-> hasDates(content),
              has_numbers |-> hasNumbers(content),
              word_count |-> countWords(OrElse(it.content, OrElse(it.snippet, it.title))),
              scraper_version |-> "1.0",
              processing_notes |-> clock ] ]

(***************************************************************************)
(* The content store: table content_items and Database.insertContentItem.  *)
(* A row is a record of the table's columns; row i of content_items has    *)
(* id i (the i-th uuid the store generated).  The five score columns are   *)
(* NUMERIC(3,2): a stored score is an integer number of hundredths.        *)
(***************************************************************************)
MaxBatch == 2       \* a collection workflow stores at most this many items per run
MaxStoreTicks == 1  \* the clock of the store advances at most this many times

\* A value with `scale` units to the hundredth, rounded to NUMERIC(3,2)
\* (to the nearest hundredth, halves away from zero).
Numeric32(x, scale) == (2 * x + scale) \div (2 * scale)

\* The row the INSERT creates: the 22 values of the statement, and the
\* defaults of the columns it leaves out (id, collected_at).
NewRow(id, it, clock) ==
    [ id |-> id,
      source |-> it.source,
      source_url |-> it.source_url,
      title |-> it.title,
      url |-> it.url,
      content_hash |-> it.content_hash,
      snippet |-> it.snippet,
      full_content |-> it.full_content,
      author |-> it.author,
      published_at |-> it.published_at,
      collected_at |-> clock,
      categories |-> None,
      language |-> it.language,
      domain_authority |-> Numeric32(it.domain_authority, 10),
      indian_context_score |-> Numeric32(it.indian_context_score, 10),
      freshness_score |-> Numeric32(it.freshness_score, 10),
      extractability_score |-> Numeric32(it.extractability_score, 10),
      composite_score |-> Numeric32(it.composite_score, 100),
      has_statistics |-> it.has_statistics,
      has_dates |-> it.has_dates,
      has_numbers |-> it.has_numbers,
      word_count |-> it.word_count,
      scraper_version |-> it.scraper_version,
      processing_notes |-> it.processing_notes ]

\* The rows of a table that hold value v in column url / content_hash.
RowsWithUrl(rows, v) == {i \in DOMAIN rows : rows[i].url = v}

RowsWithHash(rows, v) == {i \in DOMAIN rows : rows[i].content_hash = v}

\* A table without the UNIQUE constraints on url and content_hash: the INSERT
\* always adds a row.
insertContentItemNoConstraint(rows, it, clock) ==
    [ rows |-> Append(rows, NewRow(Len(rows) + 1, it, clock)),
      outcome |-> "inserted" ]

\* An upsert that overwrites every column of the row in conflict.
insertContentItemUpdateAll(rows, it, clock) ==
    IF RowsWithUrl(rows, it.url) # {}
    THEN LET i == CHOOSE i \in RowsWithUrl(rows, it.url) : TRUE
         IN  [ rows |-> [rows EXCEPT ![i] = NewRow(i, it, clock)],
               outcome |-> "updated" ]
    ELSE IF RowsWithHash(rows, it.content_hash) # {}
    THEN [ rows |-> rows, outcome |-> "unique_violation" ]
    ELSE [ rows |-> Append(rows, NewRow(Len(rows) + 1, it, clock)),
           outcome |-> "inserted" ]

\* ON CONFLICT (url) DO NOTHING: the row in conflict stays as it is.
insertContentItemDoNothing(rows, it, clock) ==
    IF RowsWithUrl(rows, it.url) # {}
    THEN [ rows |-> rows, outcome |-> "updated" ]
    ELSE IF RowsWithHash(rows, it.content_hash) # {}
    THEN [ rows |-> rows, outcome |-> "unique_violation" ]
    ELSE [ rows |-> Append(rows, NewRow(Len(rows) + 1, it, clock)),
           outcome |-> "inserted" ]

\* INSERT INTO content_items (...) VALUES (...)
\*   ON CONFLICT (url) DO UPDATE SET full_content = EXCLUDED.full_content,
\*     composite_score = EXCLUDED.composite_score, collected_at = now()
\* as one atomic statement: a row with the item's url is updated in place;
\* otherwise a row with the item's content_hash makes the INSERT fail on the
\* UNIQUE constraint of content_hash (the promise rejects, the table is as it
\* was); otherwise the row is added.
insertContentItem(rows, it, clock) ==
    IF RowsWithUrl(rows, it.url) # {}
    THEN LET i == CHOOSE i \in RowsWithUrl(rows, it.url) : TRUE
         IN  [ rows |-> [rows EXCEPT ![i].full_content = it.full_content,
                                     ![i].composite_score = Numeric32(it.composite_score, 100),
                                     ![i].collected_at = clock],
               outcome |-> "updated" ]
    ELSE IF RowsWithHash(rows, it.content_hash) # {}
    THEN [ rows |-> rows, outcome |-> "unique_violation" ]
    ELSE [ rows |-> Append(rows, NewRow(Len(rows) + 1, it, clock)),
           outcome |-> "inserted" ]

\* The collection workflows, each named by the source label it passes to
\* processAndStore.
Workflows == {"pib", "brave_search"}

\* The URLs the collected items have.  The second is the first behind a
\* prefix with a "|": title "hr|x" with the first URL and title "hr" with the
\* second have the same `${title}|${url}`, and so the same content hash.
StoreUrls == {"https://example.com/b", "x|https://example.com/b"}

\* No workflow is running and no upsert was made.
StoreIdle ==
    /\ collectors = [w \in Workflows |-> [pc |-> "idle", scoredAt |-> 0, left |-> 0, ceiling |-> 0]]
    /\ lastOp = <<>>
    /\ lastApplied = [u \in StoreUrls |-> <<>>]
    /\ failed = {}

\* No statement is being sent and no chat message is being handled.
ChatIdle ==
    /\ query = [pc |-> "idle"]
    /\ chat = [pc |-> "idle", events |-> <<>>]

\* No report was asked for: the tables reports and citations are empty.
ReportIdle ==
    /\ extraction = <<>>
    /\ reports = <<>>
    /\ citations = <<>>
    /\ run = [pc |-> "idle"]
    /\ calls = <<>>

(***************************************************************************)
(* SpecScore: scoreContent applied to raw items, at one time and again at  *)
(* a later time.                                                           *)
(***************************************************************************)
Titles == {<<>>, <<"hr">>, <<"india", "labour">>, <<"15%", "INR500", "5">>}

Snippets == {<<>>, <<"code", "2021", "2021">>, <<"lakh", "survey", "QUOTE">>}

\* Bodies are all texts of up to MaxBodyLen words over these words; the other
\* words of the vocabulary occur in the titles and snippets.
BodyWords == {"hr", "india", "design", "lakh", "15%", "2021", "LOREM"}

Bodies == SeqsUpTo(BodyWords, MaxBodyLen)

Urls == {"https://pib.gov.in/a", "https://example.com/b", "not a url"}

Authors == {None, "HR Reporter"}

\* Publish dates: absent, four and two half-lives before day 0, and one
\* half-life after it (a date in the future).
PublishDates == {<<>>, <<0 - 4 * HalfLife>>, <<0 - 2 * HalfLife>>, <<HalfLife>>}

SourceLabels == {"pib", "brave-search"}

RawItems ==
    [ title : Titles, url : Urls, snippet : Snippets, content : Bodies,
      author : Authors, published_at : PublishDates ]

InitScore ==
    /\ now = 0
    /\ item = <<>>
    /\ label = None
    /\ first = <<>>
    /\ second = <<>>
    /\ content_items = <<>>
    /\ StoreIdle
    /\ selection = <<>>
    /\ ReportIdle
    /\ ChatIdle

\* The clock advances (by one half-life, so that ages stay whole half-lives);
\* day 0 is the day of the first call.
Tick ==
    /\ item # <<>>
    /\ now < MaxTicks * HalfLife
    /\ now' = now + HalfLife
    /\ UNCHANGED <<item, label, first, second, content_items, storeVars, selection, reportVars, chatVars>>

\* scorer.scoreContent(it, source), first call.
ScoreFirst ==
    /\ item = <<>>
    /\ \E it \in RawItems, source \in SourceLabels :
          /\ item' = <<it>>
          /\ label' = source
          /\ first' = <<[at |-> now, result |-> scoreContent(it, source, now)]>>
    /\ UNCHANGED <<now, second, content_items, storeVars, selection, reportVars, chatVars>>

\* scorer.scoreContent(it, source) again, on the same raw item and label.
ScoreAgain ==
    /\ item # <<>>
    /\ second' = <<[at |-> now, result |-> scoreContent(item[1], label, now)]>>
    /\ UNCHANGED <<now, item, label, first, content_items, storeVars, selection, reportVars, chatVars>>

NextScore == Tick \/ ScoreFirst \/ ScoreAgain

SpecScore == InitScore /\ [][NextScore]_vars

\* The two weighted sums a result is checked against.
Weighted(c) ==
    4 * c.domain_authority + 3 * c.indian_context + 2 * c.freshness + c.extractability

StoredWeighted(d) ==
    4 * d.domain_authority + 3 * d.indian_context_score
    + 2 * d.freshness_score + d.extractability_score

Results == {first[i].result : i \in DOMAIN first} \cup {second[i].result : i \in DOMAIN second}

Scores(r) ==
    <<r.components.domain_authority, r.components.indian_context,
      r.components.freshness, r.components.extractability,
      r.scored_item.composite_score>>

StoreTitles == {<<"hr">>, <<"hr|x">>}

StoreBodies == {<<"india">>, <<"hr">>}

\* The raw items a batch is made of: every title with every URL, and the
\* first title and URL with every body.
StoreRawItems ==
    { r \in [ title : StoreTitles, url : StoreUrls, snippet : {<<>>},
              content : StoreBodies, author : {None},
              published_at : {<<0 - 2 * HalfLife>>} ] :
        r.content = <<"hr">> \/ (r.title = <<"hr">> /\ r.url = "https://example.com/b") }

InitStore ==
    /\ now = 0
    /\ item = <<>>
    /\ label = None
    /\ first = <<>>
    /\ second = <<>>
    /\ content_items = <<>>
    /\ StoreIdle
    /\ selection = <<>>
    /\ ReportIdle
    /\ ChatIdle

TickStore ==
    /\ now < MaxStoreTicks * HalfLife
    /\ now' = now + HalfLife
    /\ UNCHANGED <<scoreVars, content_items, storeVars, selection, reportVars, chatVars>>

\* processAndStore(rawItems, source) up to the loop, for a batch that is not
\* empty (an empty batch returns at once): the batch is scored.
processAndStore(w) ==
    /\ collectors[w].pc = "idle"
    /\ \E n \in 1..MaxBatch :
          collectors' = [collectors EXCEPT ![w] =
              [pc |-> "inserting", scoredAt |-> now, left |-> n, ceiling |-> 10000]]
    /\ UNCHANGED <<now, scoreVars, content_items, lastOp, lastApplied, failed, selection, reportVars, chatVars>>

\* One turn of the loop of processAndStore: try { await db.insertContentItem(item) }
\* catch { log }, for the next item of the sorted batch.
InsertScoredItem(w) ==
    /\ collectors[w].pc = "inserting"
    /\ \E raw \in StoreRawItems :
       \E it \in {scoreContent(raw, w, collectors[w].scoredAt).scored_item} :
       \E res \in {insertContentItem(content_items, it, now)} :
       \E op \in {[ collector |-> w, title |-> it.title, url |-> it.url,
                    content_hash |-> it.content_hash,
                    full_content |-> it.full_content,
                    composite_score |-> it.composite_score,
                    outcome |-> res.outcome ]} :
          /\ it.composite_score <= collectors[w].ceiling
          /\ content_items' = res.rows
          /\ lastOp' = <<op>>
          /\ IF res.outcome = "unique_violation"
             THEN /\ failed' = failed \cup {[url |-> it.url, content_hash |-> it.content_hash]}
                  /\ UNCHANGED lastApplied
             ELSE /\ lastApplied' = [lastApplied EXCEPT ![it.url] = <<op>>]
                  /\ UNCHANGED failed
          /\ collectors' = [collectors EXCEPT ![w] =
                IF collectors[w].left = 1
                THEN [pc |-> "done", scoredAt |-> 0, left |-> 0, ceiling |-> 0]
                ELSE [@ EXCEPT !.left = @ - 1, !.ceiling = it.composite_score]]
    /\ UNCHANGED <<now, scoreVars, selection, reportVars, chatVars>>

NextStore ==
    \/ TickStore
    \/ \E w \in Workflows : processAndStore(w)
    \/ \E w \in Workflows : InsertScoredItem(w)

SpecStore == InitStore /\ [][NextStore]_vars

\* The columns of a row an update in place leaves alone: the row with its
\* body, composite score and collection time blanked.
Frozen(d) == [d EXCEPT !.full_content = <<>>, !.composite_score = 0, !.collected_at = 0]

\* C2: after any sequence of score-and-upsert operations, every stored row's
\* composite_score is 0.4*domain_authority + 0.3*indian_context_score +
\* 0.2*freshness_score + 0.1*extractability_score of that same row, to the
\* precision of the NUMERIC(3,2) columns (rounding the five columns moves the
\* two sides at most 0.01 apart; here in thousandths).
C2_StoredCompositeIsWeightedSum ==
    \A i \in DOMAIN content_items :
        LET d == content_items[i]
            gap == 10 * d.composite_score - StoredWeighted(d)
        IN  gap \in (0 - 10)..10

\* C5: the content hash the scorer gives an item is a function of its
\* (title, url) alone, so two raw items with the same (title, url) get the
\* same content hash whatever their bodies, the label and the day; the store
\* never holds two rows with one url or with one content_hash; and a url that
\* was upserted, once or more often, has exactly one row.
C5_OneDocumentPerIdentity ==
    /\ \A i \in DOMAIN lastOp :
          lastOp[i].content_hash = generateContentHash(lastOp[i].title, lastOp[i].url)
    /\ \A i \in DOMAIN content_items :
          content_items[i].content_hash
              = generateContentHash(content_items[i].title, content_items[i].url)
    /\ \A i, j \in DOMAIN content_items :
          (\/ content_items[i].url = content_items[j].url
           \/ content_items[i].content_hash = content_items[j].content_hash) => i = j
    /\ \A u \in StoreUrls :
          lastApplied[u] # <<>> => Cardinality(RowsWithUrl(content_items, u)) = 1

\* The same (title, url) was upserted a second time, with another body, and
\* the store holds one row for it, and one row in all.
C5_Witness ==
    /\ lastOp # <<>>
    /\ lastOp[1].outcome = "updated"
    /\ Len(content_items) = 1
    /\ content_items[1].title = lastOp[1].title
    /\ content_items[1].url = lastOp[1].url
    /\ content_items[1].content_hash = lastOp[1].content_hash
    /\ content_items[1].snippet # lastOp[1].full_content

\* C6: a step never removes a row and never changes a column of a row other
\* than full_content, composite_score and collected_at; a step that changes
\* the table is an upsert which, when a row with the item's url was stored,
\* keeps the number of rows, leaves every other row as it was and gives that
\* row the item's body and composite score and the time of the upsert, and
\* which otherwise adds one row and leaves every stored row as it was.
C6_UpsertUpdatesInPlace ==
    [][ /\ Len(content_items') >= Len(content_items)
        /\ \A i \in DOMAIN content_items :
              Frozen(content_items'[i]) = Frozen(content_items[i])
        /\ content_items' # content_items =>
              /\ lastOp' # <<>>
              /\ IF RowsWithUrl(content_items, lastOp'[1].url) # {}
                 THEN /\ Len(content_items') = Len(content_items)
                      /\ \A i \in DOMAIN content_items :
                            IF content_items[i].url = lastOp'[1].url
                            THEN /\ content_items'[i].full_content = lastOp'[1].full_content
                                 /\ content_items'[i].composite_score
                                        = Numeric32(lastOp'[1].composite_score, 100)
                                 /\ content_items'[i].collected_at = now
                            ELSE content_items'[i] = content_items[i]
                 ELSE /\ Len(content_items') = Len(content_items) + 1
                      /\ \A i \in DOMAIN content_items :
                            content_items'[i] = content_items[i]
      ]_vars

\* A stored url was upserted on a later day under another title and with
\* another body: the row has the new body and collection day and its old
\* title, and the other row of the table is there.
C6_Witness ==
    /\ lastOp # <<>>
    /\ lastOp[1].outcome = "updated"
    /\ Len(content_items) = 2
    /\ \E i \in DOMAIN content_items :
          /\ content_items[i].url = lastOp[1].url
          /\ content_items[i].title # lastOp[1].title
          /\ content_items[i].full_content = lastOp[1].full_content
          /\ content_items[i].snippet # lastOp[1].full_content
          /\ content_items[i].collected_at = HalfLife
          /\ content_items[i].processing_notes = 0

MaxDocs == 2        \* the store the selector searches has at most this many rows
MaxSources == 3     \* the maximum count asked of the selector is at most this

toLowerCase(w) == IF w = "Hiring?" THEN "hiring?" ELSE w

\* word.replace(/[^\w\s]/g, '')
stripPunctuation(w) == IF w = "hiring?" THEN "hiring" ELSE w

expansions ==
    [ k \in {"attrition", "hiring", "salary", "remote", "skills"} |->
        CASE k = "attrition" -> <<"turnover", "retention", "quit", "resign">>
          [] k = "hiring" -> <<"recruitment", "talent", "job", "employment">>
          [] k = "salary" -> <<"compensation", "wage", "pay", "benefits">>
          [] k = "remote" -> <<"wfh", "hybrid", "flexible", "telecommute">>
          [] k = "skills" -> <<"upskilling", "training", "development", "learning">> ]

RECURSIVE Flatten(_)
Flatten(ss) == IF ss = <<>> THEN <<>> ELSE Head(ss) \o Flatten(Tail(ss))

\* [...new Set(s)]: the first occurrence of each element, in order.
RECURSIVE Unique(_)
Unique(s) ==
    IF s = <<>> THEN <<>>
    ELSE LET rest == Unique(SubSeq(s, 1, Len(s) - 1))
             last == s[Len(s)]
         IN  IF \E i \in DOMAIN rest : rest[i] = last THEN rest ELSE Append(rest, last)

\* An expansion path that keeps every candidate: s.slice(0) for s.slice(0, n).
sliceAll(s, n) == s

\* s.slice(0, n)
slice(s, n) == SubSeq(s, 1, Min(n, Len(s)))

extractKeywords(topic) ==
    LET words == [i \in DOMAIN topic |-> stripPunctuation(toLowerCase(topic[i]))]
        keywords == SelectSeq(words, LAMBDA word : Len(word) > 3)
        expandedKeywords ==
            keywords \o Flatten([i \in DOMAIN keywords |->
                IF keywords[i] \in DOMAIN expansions THEN expansions[keywords[i]] ELSE <<>>])
    IN  slice(Unique(expandedKeywords), 10)

\* The words of title || ' ' || COALESCE(snippet, '').
SearchText(row) == row.title \o row.snippet

Occurrences(text, w) == Cardinality({i \in DOMAIN text : text[i] = w})

\* text ILIKE '%' || topic || '%', word by word: the topic's words, in lower
\* case, stand in the text one after the other.
ILike(text, topic) ==
    \E k \in 0..(Len(text) - Len(topic)) :
        \A i \in DOMAIN topic : text[k + i] = toLowerCase(topic[i])

\* to_tsvector(...) @@ plainto_tsquery(topic): every word of the topic, in
\* lower case and without punctuation, is a word of the text.
TsMatch(text, topic) ==
    /\ topic # <<>>
    /\ \A i \in DOMAIN topic : Occurrences(text, stripPunctuation(toLowerCase(topic[i]))) > 0

\* ts_rank(...): 0 for a text that does not match, and more the more often
\* the topic's words are in the text.
relevance(row, topic) ==
    IF TsMatch(SearchText(row), topic)
    THEN Sum([i \in DOMAIN topic |->
                Occurrences(SearchText(row), stripPunctuation(toLowerCase(topic[i])))])
    ELSE 0

\* The relevance of each row, in the order of the table.
RECURSIVE relevances(_, _)
relevances(rows, topic) ==
    IF rows = <<>> THEN <<>>
    ELSE <<relevance(Head(rows), topic)>> \o relevances(Tail(rows), topic)

\* ORDER BY relevance DESC, composite_score DESC of the rows at positions ps,
\* rel[i] being the relevance of row i; rows the ORDER BY does not tell apart
\* come in the order of the table.
RECURSIVE OrderBy(_, _, _)
OrderBy(rows, ps, rel) ==
    IF ps = {} THEN <<>>
    ELSE LET top == CHOOSE i \in ps : \A j \in ps :
                        \/ rel[i] > rel[j]
                        \/ /\ rel[i] = rel[j]
                           /\ rows[i].composite_score > rows[j].composite_score
                        \/ /\ rel[i] = rel[j]
                           /\ rows[i].composite_score = rows[j].composite_score
                           /\ i <= j
         IN  <<rows[top]>> \o OrderBy(rows, ps \ {top}, rel)

searchContentItems(rows, topic, limit) ==
    LET where == {i \in DOMAIN rows :
                    \/ TsMatch(SearchText(rows[i]), topic)
                    \/ ILike(rows[i].title, topic)
                    \/ ILike(rows[i].snippet, topic)}
        ordered == OrderBy(rows, where, relevances(rows, topic))
    IN  SubSeq(ordered, 1, Min(limit, Len(ordered)))

\* An expansion path that keeps a row as often as the searches found it.
removeDuplicatesKeepAll(sources) == sources

\* sources.filter((source, index, self) =>
\*     index === self.findIndex(s => s.id === source.id))
RECURSIVE removeDuplicates(_)
removeDuplicates(sources) ==
    IF sources = <<>> THEN <<>>
    ELSE LET rest == removeDuplicates(SubSeq(sources, 1, Len(sources) - 1))
             last == sources[Len(sources)]
         IN  IF \E i \in DOMAIN rest : rest[i].id = last.id THEN rest ELSE Append(rest, last)

\* A selector that leaves its candidates in the order it has them in.
sortNothing(sources) == sources

\* sources.sort((a, b) => Number(b.composite_score) - Number(a.composite_score)):
\* highest score first; the sort is stable.
RECURSIVE sortByCompositeScore(_)
sortByCompositeScore(sources) ==
    IF sources = <<>> THEN <<>>
    ELSE LET k == CHOOSE i \in DOMAIN sources :
                    /\ \A j \in DOMAIN sources :
                          sources[j].composite_score <= sources[i].composite_score
                    /\ \A j \in 1..(i - 1) :
                          sources[j].composite_score < sources[i].composite_score
         IN  <<sources[k]>> \o
             sortByCompositeScore(SubSeq(sources, 1, k - 1)
                                  \o SubSeq(sources, k + 1, Len(sources)))

\* source.published_at || source.collected_at, as a day.
sourceDate(source) ==
    IF source.published_at # <<>> THEN source.published_at[1] ELSE source.collected_at

\* A quality floor that lets a score of exactly 0.3 pass.
isHighQualityInclusive(source) == source.composite_score >= 30

\* Number(source.composite_score) > 0.3
isHighQuality(source) == source.composite_score > 30

\* for (const keyword of keywords)
\*     sources = sources.concat(await db.searchContentItems(keyword, 10))
RECURSIVE searchKeywords(_, _, _)
searchKeywords(rows, sources, keywords) ==
    IF keywords = <<>> THEN sources
    ELSE searchKeywords(rows,
                        sources \o searchContentItems(rows, <<Head(keywords)>>, 10),
                        Tail(keywords))

\* The first half of findRelevantSources(topic, maxSources, timeRangeDays) on
\* a store with the given rows: the direct search and, when it found fewer
\* than maxSources / 2 rows, the keyword expansion.  The result has the rows
\* of the direct search, whether the expansion ran, the keywords it searched
\* and the candidates the filters are applied to.
findCandidates(rows, topic, maxSources) ==
    LET direct == searchContentItems(rows, topic, maxSources)
        expand == 2 * Len(direct) < maxSources
        keywords == IF expand THEN extractKeywords(topic) ELSE <<>>
    IN  [ expanded |-> expand,
          direct |-> direct,
          keywords |-> keywords,
          candidates |->
            IF expand
            THEN slice(sortByCompositeScore(removeDuplicates(
                           searchKeywords(rows, direct, keywords))),
                       maxSources)
            ELSE direct ]

\* The second half of findRelevantSources, read at day clock: the recency
\* filter, then the quality filter and the sort of the rows that pass.
applyFilters(found, timeRangeDays, clock) ==
    LET cutoffDate == clock - timeRangeDays
        inRange == SelectSeq(found.candidates,
                             LAMBDA source : sourceDate(source) > cutoffDate)
    IN  [ expanded |-> found.expanded,
          direct |-> found.direct,
          keywords |-> found.keywords,
          candidates |-> found.candidates,
          sources |-> sortByCompositeScore(
              SelectSeq(inRange, LAMBDA source : isHighQuality(source))) ]

\* findRelevantSources(topic, maxSources, timeRangeDays) on a store with the
\* given rows, read at day clock: the list it returns, and whether it went
\* through the keyword expansion.
findRelevantSources(rows, topic, maxSources, timeRangeDays, clock) ==
    applyFilters(findCandidates(rows, topic, maxSources), timeRangeDays, clock)

(***************************************************************************)
(* SpecSelect: findRelevantSources is called on a store of up to MaxDocs   *)
(* rows.  The rows are any the table can hold: they differ in title, in    *)
(* composite score (0.30, 0.31, 0.80) and in their dates.                  *)
(***************************************************************************)
DocTitles == {<<"hiring", "trends">>, <<"talent", "hiring", "hiring">>}

DocScores == {30, 31, 80}

\* The days a row was published and collected, relative to day 0, the day of
\* the call: no publish date and collected a day ago or 400 days ago;
\* published 30 days ago and collected a day ago.
DocDates ==
    { [published_at |-> <<>>, collected_at |-> 0 - 1],
      [published_at |-> <<>>, collected_at |-> 0 - 400],
      [published_at |-> <<0 - 30>>, collected_at |-> 0 - 1] }

DocUrl(id) == IF id = 1 THEN "https://example.com/1"
              ELSE IF id = 2 THEN "https://example.com/2"
              ELSE IF id = 3 THEN "https://example.com/3"
              ELSE "https://example.com/4"

\* Row id of the table, as insertContentItem made it from an item with the
\* given title and publish date, with the composite score and collection day
\* a later upsert left.
Doc(id, title, score, dates) ==
    [ NewRow(id,
             scoreContent([ title |-> title, url |-> DocUrl(id), snippet |-> <<>>,
                            content |-> <<>>, author |-> None,
                            published_at |-> dates.published_at ],
                          "pib", dates.collected_at).scored_item,
             dates.collected_at)
      EXCEPT !.composite_score = score, !.published_at = dates.published_at ]

Stores ==
    UNION { { [i \in 1..n |-> Doc(i, f[i].title, f[i].score, f[i].dates)] :
                f \in [1..n -> [title : DocTitles, score : DocScores, dates : DocDates]] } :
            n \in 0..MaxDocs }

Topics ==
    { <<"hiring">>, <<"Hiring?", "trends">>, <<"hiring", "salary">>,
      <<"remote", "skills", "attrition">> }

TimeRanges == {30, 365}

InitSelect ==
    /\ now = 0
    /\ item = <<>>
    /\ label = None
    /\ first = <<>>
    /\ second = <<>>
    /\ content_items \in Stores
    /\ StoreIdle
    /\ selection = <<>>
    /\ ReportIdle
    /\ ChatIdle

\* generateReport's call findRelevantSources(topic, maxSources, timeRangeDays).
\* The call reads the store and writes nothing; one call is followed from
\* each store.
FindRelevantSources ==
    /\ selection = <<>>
    /\ \E topic \in Topics, maxSources \in 1..MaxSources :
       \E found \in {findCandidates(content_items, topic, maxSources)} :
       \E timeRangeDays \in TimeRanges :
       \E res \in {applyFilters(found, timeRangeDays, now)} :
          selection' = <<[ topic |-> topic, maxSources |-> maxSources,
                           timeRangeDays |-> timeRangeDays,
                           expanded |-> res.expanded, direct |-> res.direct,
                           keywords |-> res.keywords, candidates |-> res.candidates,
                           sources |-> res.sources ]>>
    /\ UNCHANGED <<now, scoreVars, content_items, storeVars, reportVars, chatVars>>

NextSelect == FindRelevantSources

SpecSelect == InitSelect /\ [][NextSelect]_vars

\* C8: whatever the topic, the maximum count, the recency window and the
\* rows of the store, the list findRelevantSources returns has at most
\* maxSources elements, when the direct search filled it and when the
\* keyword expansion did.
C8_AtMostMaxSources ==
    \A c \in DOMAIN selection :
        Len(selection[c].sources) <= selection[c].maxSources

\* The direct search found nothing, the keyword searches found the two rows
\* of the store, both recent and above the quality floor, and one was asked
\* for and returned.
C8_Witness ==
    /\ selection # <<>>
    /\ selection[1].expanded
    /\ selection[1].maxSources = 1
    /\ Len(selection[1].sources) = 1
    /\ Len(content_items) = 2
    /\ \A i \in DOMAIN content_items :
          /\ content_items[i].composite_score > 30
          /\ content_items[i].published_at = <<>>
          /\ content_items[i].collected_at > now - selection[1].timeRangeDays

\* C9: every row findRelevantSources returns has a composite score above
\* 0.3, and its publish date, or its collection date when it has no publish
\* date, is later than the day of the call minus the recency window.
C9_AboveFloorAndInWindow ==
    \A c \in DOMAIN selection :
        \A j \in DOMAIN selection[c].sources :
            LET d == selection[c].sources[j]
            IN  /\ d.composite_score > 30
                /\ (IF d.published_at # <<>> THEN d.published_at[1] ELSE d.collected_at)
                       > now - selection[c].timeRangeDays

\* Both rows of the store match the topic; the one with score 0.30 is left
\* out and the one with score 0.31, published within the window of 365 days,
\* is returned.
C9_Witness ==
    /\ selection # <<>>
    /\ selection[1].topic = <<"hiring">>
    /\ selection[1].timeRangeDays = 365
    /\ Len(content_items) = 2
    /\ \E i \in DOMAIN content_items :
          /\ content_items[i].composite_score = 30
          /\ content_items[i].published_at = <<>>
          /\ content_items[i].collected_at = 0 - 1
    /\ Len(selection[1].sources) = 1
    /\ selection[1].sources[1].composite_score = 31
    /\ selection[1].sources[1].published_at = <<0 - 30>>

\* C10: in the list findRelevantSources returns, each element's composite
\* score is at least that of every later element, and no two elements have
\* the same id or the same url.
C10_OrderedNoDuplicates ==
    \A c \in DOMAIN selection :
        \A j, k \in DOMAIN selection[c].sources :
            j < k =>
                /\ selection[c].sources[j].composite_score
                       >= selection[c].sources[k].composite_score
                /\ selection[c].sources[j].id # selection[c].sources[k].id
                /\ selection[c].sources[j].url # selection[c].sources[k].url

\* The direct search found row 1 only, the keyword searches found row 1
\* again and row 2; the list has each once, row 2 with the higher score
\* first.
C10_Witness ==
    /\ selection # <<>>
    /\ selection[1].expanded
    /\ selection[1].topic = <<"Hiring?", "trends">>
    /\ Len(selection[1].sources) = 2
    /\ selection[1].sources[1].id = 2
    /\ selection[1].sources[1].composite_score = 80
    /\ selection[1].sources[2].id = 1
    /\ selection[1].sources[2].composite_score = 31

(***************************************************************************)
(* The citation extractor and the confidence estimator:                    *)
(* ReportGenerator.extractCitationsFromContent and                         *)
(* ReportGenerator.calculateQualityMetrics.                                *)
(*                                                                         *)
(* A generated text is a sequence of tokens, the pieces of the text        *)
(* between its spaces, except that a marker such as "[Source 1]" is one    *)
(* token and a heading line is one token.  Each token is a line of the     *)
(* text, and no line is blank.  A JavaScript number is a record: NaN, or a *)
(* value in millionths.                                                    *)
(***************************************************************************)
MaxTextLen == 3     \* a generated text has at most this many tokens

TextTokens ==
    { "growth", "LOREM", "[Source 1]", "[Source 01]", "[Source 2]", "[Source 3]",
      "[Source 0]", "[source 1]", "## Overview", "2. Findings" }

Texts == SeqsUpTo(TextTokens, MaxTextLen)

\* /\[Source (\d+)\]/ on a token: <<>> when the token does not match, and
\* otherwise parseInt of the digits it captures.
sourceMarker(token) ==
    CASE token = "[Source 1]" -> <<1>>
      [] token = "[Source 01]" -> <<1>>
      [] token = "[Source 2]" -> <<2>>
      [] token = "[Source 3]" -> <<3>>
      [] token = "[Source 0]" -> <<0>>
      [] OTHER -> <<>>

\* content.substring(match.index - 50, match.index + match[0].length + 50),
\* with its white space collapsed and trimmed: the marker and what is around
\* it, here the token before it and the token after it.
contextOf(content, i) ==
    SubSeq(content, Max(1, i - 1), Min(Len(content), i + 1))

\* An extractor that numbers a citation by the label of its marker.
RECURSIVE extractCitationsNumberedByLabel(_, _, _, _)
extractCitationsNumberedByLabel(content, sources, i, pushed) ==
    IF i > Len(content) THEN pushed
    ELSE LET match == sourceMarker(content[i])
         IN  IF match # <<>> /\ match[1] - 1 >= 0 /\ match[1] - 1 < Len(sources)
             THEN extractCitationsNumberedByLabel(content, sources, i + 1,
                      Append(pushed,
                             [ number |-> match[1],
                               sourceId |-> sources[match[1]].id,
                               text |-> sources[match[1]].title,
                               context |-> contextOf(content, i) ]))
             ELSE extractCitationsNumberedByLabel(content, sources, i + 1, pushed)

\* An extractor that reads the label as a position counted from 0.
RECURSIVE extractCitationsZeroBased(_, _, _, _)
extractCitationsZeroBased(content, sources, i, pushed) ==
    IF i > Len(content) THEN pushed
    ELSE LET match == sourceMarker(content[i])
         IN  IF match # <<>> /\ match[1] >= 0 /\ match[1] < Len(sources)
             THEN extractCitationsZeroBased(content, sources, i + 1,
                      Append(pushed,
                             [ number |-> Len(pushed) + 1,
                               sourceId |-> sources[match[1] + 1].id,
                               text |-> sources[match[1] + 1].title,
                               context |-> contextOf(content, i) ]))
             ELSE extractCitationsZeroBased(content, sources, i + 1, pushed)

\* The loop of extractCitationsFromContent over the matches of the marker
\* pattern, from token i on, with the citations pushed so far.
RECURSIVE extractCitationsFrom(_, _, _, _)
extractCitationsFrom(content, sources, i, pushed) ==
    IF i > Len(content) THEN pushed
    ELSE LET match == sourceMarker(content[i])
         IN  IF match # <<>> /\ match[1] - 1 >= 0 /\ match[1] - 1 < Len(sources)
             THEN extractCitationsFrom(content, sources, i + 1,
                      Append(pushed,
                             [ number |-> Len(pushed) + 1,
                               sourceId |-> sources[match[1]].id,
                               text |-> sources[match[1]].title,
                               context |-> contextOf(content, i) ]))
             ELSE extractCitationsFrom(content, sources, i + 1, pushed)

\* line.match(/^(#{1,3}|\d+\.)\s+(.+)$/): <<>> when the line is not a
\* heading, and otherwise what the two groups capture.
headerMatch(line) ==
    CASE line = "## Overview" -> <<"##", "Overview">>
      [] line = "2. Findings" -> <<"2.", "Findings">>
      [] OTHER -> <<>>

\* extractCitationNumbers(text): the labels of the markers of the lines.
extractCitationNumbers(lines) ==
    LET marked == SelectSeq(lines, LAMBDA line : sourceMarker(line) # <<>>)
    IN  [k \in DOMAIN marked |-> sourceMarker(marked[k])[1]]

\* The section pushed for a title and the lines accumulated since.
Section(currentSection, currentContent) ==
    [ title |-> currentSection,
      content |-> currentContent,
      citations |-> extractCitationNumbers(currentContent) ]

\* The loop over the lines, from line i on, and the push of the final
\* section after it; currentSection is <<>> for the empty string.
RECURSIVE extractSectionsFrom(_, _, _, _, _)
extractSectionsFrom(lines, i, currentSection, currentContent, sections) ==
    IF i > Len(lines)
    THEN IF currentSection # <<>>
         THEN Append(sections, Section(currentSection[1], currentContent))
         ELSE sections
    ELSE IF headerMatch(lines[i]) # <<>>
         THEN extractSectionsFrom(lines, i + 1, <<headerMatch(lines[i])[2]>>, <<>>,
                  IF currentSection # <<>>
                  THEN Append(sections, Section(currentSection[1], currentContent))
                  ELSE sections)
         ELSE extractSectionsFrom(lines, i + 1, currentSection,
                                  Append(currentContent, lines[i]), sections)

\* extractCitationsFromContent(content, sources): the sections and the
\* citations it returns.
extractCitationsFromContent(content, sources) ==
    [ sections |-> extractSectionsFrom(content, 1, <<>>, <<>>, <<>>),
      citations |-> extractCitationsFrom(content, sources, 1, <<>>) ]

\* ReportGenerator.countWords: text.trim().split(/\s+/).filter(word =>
\* word.length > 0).length.  A marker holds a space and is two words,
\* and so is a heading line.
wordsOfToken(token) ==
    IF token = "LOREM" THEN PadWords
    ELSE IF sourceMarker(token) # <<>> \/ token = "[source 1]"
            \/ headerMatch(token) # <<>> THEN 2
    ELSE 1

countReportWords(content) == Sum([i \in DOMAIN content |-> wordsOfToken(content[i])])

\* A JavaScript number: NaN, or a value in millionths.
NaN == [nan |-> TRUE, v |-> 0]

Num(v) == [nan |-> FALSE, v |-> v]

\* sources.reduce((sum, s) => sum + s.composite_score, 0) / sources.length.
\* The rows come from the store's driver, which hands a NUMERIC column over
\* as its decimal text (the code elsewhere wraps it in Number(...)), so that
\* `+` appends: the sum is the text "0" followed by the texts of the scores,
\* "00.80" for one source and "00.800.31" for two.  Dividing converts the
\* text to a number: the score for one source, NaN for a text with two
\* decimal points.  A score is given in hundredths.
avgSourceScore(sources) ==
    LET sum == <<0>> \o [i \in DOMAIN sources |-> sources[i].composite_score]
    IN  IF Len(sum) = 2 THEN Num((sum[2] * 10000) \div Len(sources)) ELSE NaN

\* (content.match(/\[Source \d+\]/g) || []).length
citationMarkers(content) ==
    Cardinality({i \in DOMAIN content : sourceMarker(content[i]) # <<>>})

\* calculateQualityMetrics(sources, content).confidenceScore, in millionths;
\* divisions round down.
calculateQualityMetrics(sources, content) ==
    LET avg == avgSourceScore(sources)
        sourceCountFactor == Min(1000000, (Len(sources) * 1000000) \div 10)
        wordCount == countReportWords(content)
        lengthFactor == Min(1000000, (wordCount * 1000000) \div 1000)
        markers == citationMarkers(content)
        citationDensity ==
            IF wordCount <= 100 THEN markers * 1000000
            ELSE (markers * 100000000) \div wordCount
        citationFactor == Min(1000000, citationDensity \div 5)
        confidence ==
            500000 + (avg.v * 3) \div 10 + (sourceCountFactor * 2) \div 10
            + lengthFactor \div 10 + citationFactor \div 10
    IN  IF avg.nan THEN NaN ELSE Num(Min(1000000, Max(100000, confidence)))

(***************************************************************************)
(* SpecCite: the citation extractor and the confidence estimator applied   *)
(* to a generated text and a list of selected sources, as steps 3 and 5 of *)
(* generateReport apply them.  The source lists are the lists the source   *)
(* selector returns from stores of up to MaxDocs rows.                     *)
(***************************************************************************)
ReportStores ==
    UNION { { [i \in 1..n |->
                 Doc(i, <<"hiring", "trends">>, f[i],
                     [published_at |-> <<>>, collected_at |-> 0 - 1])] :
                f \in [1..n -> DocScores] } :
            n \in 0..MaxDocs }

SourceLists ==
    { findRelevantSources(st, <<"hiring">>, MaxSources, 30, 0).sources :
        st \in ReportStores } \ {<<>>}

InitCite ==
    /\ now = 0
    /\ item = <<>>
    /\ label = None
    /\ first = <<>>
    /\ second = <<>>
    /\ content_items = <<>>
    /\ StoreIdle
    /\ selection = <<>>
    /\ ReportIdle
    /\ ChatIdle

\* Steps 3 and 5 of generateReport: extractCitationsFromContent(reportContent,
\* sources) and calculateQualityMetrics(sources, reportContent).
ExtractAndEstimate ==
    /\ extraction = <<>>
    /\ \E content \in Texts, sources \in SourceLists :
          extraction' =
              <<[ content |-> content,
                  sources |-> sources,
                  sections |-> extractCitationsFromContent(content, sources).sections,
                  citations |-> extractCitationsFromContent(content, sources).citations,
                  citationsCounted |-> citationMarkers(content),
                  confidenceScore |-> calculateQualityMetrics(sources, content) ]>>
    /\ UNCHANGED <<now, scoreVars, content_items, storeVars, selection, chatVars,
                   reports, citations, run, calls>>

NextCite == ExtractAndEstimate

SpecCite == InitCite /\ [][NextCite]_vars

\* The places of a text that hold a marker whose label is one of 1..n, from
\* left to right.
InRangeMarkers(content, n) ==
    SelectSeq([i \in DOMAIN content |-> i],
              LAMBDA i : sourceMarker(content[i]) # <<>>
                         /\ sourceMarker(content[i])[1] \in 1..n)

\* C12: the citations the extractor produces are numbered 1, 2, ... up to
\* their count, without gap or repeat, and the k-th citation is that of the
\* k-th marker from the left that has a source.
C12_SequenceNumbers ==
    \A e \in DOMAIN extraction :
        LET c == extraction[e].citations
            at == InRangeMarkers(extraction[e].content, Len(extraction[e].sources))
        IN  /\ {c[k].number : k \in DOMAIN c} = 1..Len(c)
            /\ \A k \in DOMAIN c : c[k].number = k
            /\ \A j, k \in DOMAIN c : j < k => c[j].number < c[k].number
            /\ Len(at) = Len(c)
            /\ \A k \in DOMAIN c :
                  c[k].context = contextOf(extraction[e].content, at[k])

\* The text cites source 2 and then source 1: citation 1 is that of source 2
\* and citation 2 that of source 1.
C12_Witness ==
    /\ extraction # <<>>
    /\ extraction[1].content = <<"[Source 2]", "growth", "[Source 1]">>
    /\ Len(extraction[1].sources) = 2
    /\ Len(extraction[1].citations) = 2
    /\ extraction[1].citations[1].number = 1
    /\ extraction[1].citations[1].sourceId = extraction[1].sources[2].id
    /\ extraction[1].citations[2].number = 2
    /\ extraction[1].citations[2].sourceId = extraction[1].sources[1].id

C16_ConfidenceInRange ==
    \A e \in DOMAIN extraction :
        /\ ~extraction[e].confidenceScore.nan
        /\ extraction[e].confidenceScore.v \in 100000..1000000

\* C17: the confidence score is 0.5 + 0.3*mean(composite score of the
\* sources) + 0.2*min(1, source_count/10) + 0.1*min(1, word_count/1000) +
\* 0.1*min(1, (citation_count / max(1, word_count/100)) / 5), clamped to
\* [0.1, 1.0], where citation_count is the number of citations extracted
\* from the text (in millionths, divisions rounded down).
C17_ConfidenceFormula ==
    \A e \in DOMAIN extraction :
        LET sources == extraction[e].sources
            word_count == countReportWords(extraction[e].content)
            citation_count == Len(extraction[e].citations)
            mean == (Sum([i \in DOMAIN sources |-> sources[i].composite_score]) * 10000)
                        \div Len(sources)
            density == IF word_count <= 100 THEN citation_count * 1000000
                       ELSE (citation_count * 100000000) \div word_count
            total == 500000 + (mean * 3) \div 10
                     + (Min(1000000, (Len(sources) * 1000000) \div 10) * 2) \div 10
                     + Min(1000000, (word_count * 1000000) \div 1000) \div 10
                     + Min(1000000, density \div 5) \div 10
        IN  extraction[e].confidenceScore = Num(Min(1000000, Max(100000, total)))

(***************************************************************************)
(* SpecReport: one call of generateReport, step by step.  Every call to    *)
(* the store, to the text-generation backend and to the PDF generator      *)
(* succeeds or fails; a store statement goes through Database.query, which *)
(* sends it up to maxRetries times.                                        *)
(***************************************************************************)
maxRetries == 3

\* What one pool.query of a statement that writes does: it is applied and
\* acknowledged; the connection fails before the statement is applied; the
\* connection fails after the statement was applied, before its
\* acknowledgement is read; the statement is refused.
QueryOutcomes == {"ok", "connection_error", "connection_lost", "error"}

\* The statement took effect in the store.
Applied(outcome) == outcome \in {"ok", "connection_lost"}

\* The condition under which Database.query sends the statement again.
Retried(attempt, outcome) ==
    /\ attempt < maxRetries
    /\ outcome \in {"connection_error", "connection_lost"}

\* error.message of what an attempt throws.
MessageOf(outcome) ==
    IF outcome \in {"connection_error", "connection_lost"}
    THEN "Connection terminated unexpectedly"
    ELSE "statement refused"

\* The topics a report is asked for: one that rows of the store match, and
\* one that no row matches.
ReportTopics == { <<"hiring">>, <<"budget">> }

\* The texts the text-generation backend answers with.
ReportTexts ==
    { <<"growth">>,
      <<"growth", "[Source 1]">>,
      <<"[Source 1]", "[Source 2]", "[Source 1]">>,
      <<"[Source 3]", "LOREM">> }

InitReport ==
    /\ now = 0
    /\ item = <<>>
    /\ label = None
    /\ first = <<>>
    /\ second = <<>>
    /\ content_items \in ReportStores
    /\ StoreIdle
    /\ selection = <<>>
    /\ ReportIdle
    /\ ChatIdle

\* A catch block that drops the message of what it caught.
FailureUnknownError(message) == [success |-> FALSE, error |-> "Unknown error occurred"]

\* A generateReport that goes back to the text generation after it wrote the
\* citations.
NextStepRegenerates(pc, hasCitations) ==
    CASE pc = "generate" -> "summary"
      [] pc = "summary" -> "insertReport"
      [] pc = "insertReport" -> IF hasCitations THEN "insertCitations" ELSE "pdf"
      [] pc = "insertCitations" -> "generate"
      [] pc = "pdf" -> "updatePdfPath"
      [] pc = "updatePdfPath" -> "done"

\* The statement generateReport goes on with when the awaited call of a step
\* returned: steps 2 to 9 in the order of the function's text, step 8 only
\* for a citationRecords that is not empty.
NextStep(pc, hasCitations) ==
    CASE pc = "generate" -> "summary"
      [] pc = "summary" -> "insertReport"
      [] pc = "insertReport" -> IF hasCitations THEN "insertCitations" ELSE "pdf"
      [] pc = "insertCitations" -> "pdf"
      [] pc = "pdf" -> "updatePdfPath"
      [] pc = "updatePdfPath" -> "done"

\* The result of the outer catch block.
Failure(message) == [success |-> FALSE, error |-> message]

Called(op, outcome) == Append(calls, [op |-> op, outcome |-> outcome])

\* generateReport is called; step 1, findRelevantSources, and the test of
\* sources.length.
FindSources ==
    /\ run.pc = "idle"
    /\ \E topic \in ReportTopics, outcome \in {"ok", "error"} :
          /\ calls' = Called("findRelevantSources", outcome)
          /\ IF outcome = "error"
             THEN run' = [pc |-> "done", topic |-> topic,
                          result |-> Failure(MessageOf(outcome))]
             ELSE \E sources \in { findRelevantSources(content_items, topic,
                                       MaxSources, 30, now).sources } :
                     IF Len(sources) = 0
                     THEN run' = [pc |-> "done", topic |-> topic,
                                  result |-> Failure(<<"No relevant sources found for topic: ",
                                                       topic>>)]
                     ELSE run' = [pc |-> "generate", topic |-> topic,
                                  sources |-> sources]
    /\ UNCHANGED <<now, scoreVars, content_items, storeVars, selection, chatVars,
                   extraction, reports, citations>>

\* Step 2, generateReportContent: the backend's answer, or the Error the
\* catch block throws.
GenerateReportContent ==
    /\ run.pc = "generate"
    /\ \E outcome \in {"ok", "error"}, content \in ReportTexts :
          /\ calls' = Called("generateReportContent", outcome)
          /\ IF outcome = "error"
             THEN run' = [pc |-> "done", topic |-> run.topic,
                          result |-> Failure(<<"Failed to generate content: ",
                                               "Request failed with status code 500">>)]
             ELSE run' = [pc |-> NextStep("generate", FALSE), topic |-> run.topic,
                          sources |-> run.sources, content |-> content]
    /\ UNCHANGED <<now, scoreVars, content_items, storeVars, selection, chatVars,
                   extraction, reports, citations>>

\* A fallback text that names no sources whatever their number.
FallbackSummaryZeroCount(sourceCount) ==
    <<"Executive Summary: This research report analyzes recent developments in the Indian HR market based on ",
      0, " sources.">>

\* The text generateExecutiveSummary returns when the backend fails.
FallbackSummary(sourceCount) ==
    <<"Executive Summary: This research report analyzes recent developments in the Indian HR market based on ",
      sourceCount, " sources.">>

\* Steps 3 to 6: extractCitationsFromContent, generateExecutiveSummary,
\* calculateQualityMetrics and the reportData object.
GenerateExecutiveSummary ==
    /\ run.pc = "summary"
    /\ \E outcome \in {"ok", "error"} :
          /\ calls' = Called("generateExecutiveSummary", outcome)
          /\ \E extracted \in { extractCitationsFromContent(run.content, run.sources).citations },
                qualityMetrics \in { calculateQualityMetrics(run.sources, run.content) } :
                run' = [pc |-> NextStep("summary", FALSE), topic |-> run.topic,
                        sources |-> run.sources, content |-> run.content,
                        extracted |-> extracted,
                        attempt |-> 1,
                        reportData |->
                          [ topic |-> run.topic,
                            content |-> run.content,
                            executive_summary |->
                                IF outcome = "ok" THEN <<"generated summary">>
                                ELSE FallbackSummary(Len(run.sources)),
                            confidence_score |-> qualityMetrics,
                            source_count |-> Len(run.sources),
                            citation_count |-> Len(extracted),
                            word_count |-> countReportWords(run.content),
                            source_ids |-> [i \in DOMAIN run.sources |-> run.sources[i].id] ]]
    /\ UNCHANGED <<now, scoreVars, content_items, storeVars, selection, chatVars,
                   extraction, reports, citations>>

\* The row INSERT INTO reports creates: the values of the statement, the id
\* the column default draws, and confidence_score as NUMERIC(3,2).
ReportRow(id, reportData) ==
    [ id |-> id,
      topic |-> reportData.topic,
      content |-> reportData.content,
      executive_summary |-> reportData.executive_summary,
      pdf_path |-> None,
      confidence_score |->
          IF reportData.confidence_score.nan THEN NaN
          ELSE Num(Numeric32(reportData.confidence_score.v, 10000)),
      source_count |-> reportData.source_count,
      citation_count |-> reportData.citation_count,
      word_count |-> reportData.word_count,
      source_ids |-> reportData.source_ids ]

\* Step 7, db.insertReport: one attempt of Database.query on the INSERT.
InsertReport ==
    /\ run.pc = "insertReport"
    /\ \E outcome \in QueryOutcomes :
          /\ calls' = Called("insertReport", outcome)
          /\ reports' = IF Applied(outcome)
                        THEN Append(reports, ReportRow(Len(reports) + 1, run.reportData))
                        ELSE reports
          /\ IF outcome = "ok"
             THEN run' = [pc |-> NextStep("insertReport", Len(run.extracted) > 0),
                          topic |-> run.topic, sources |-> run.sources,
                          extracted |-> run.extracted, attempt |-> 1,
                          report |-> ReportRow(Len(reports) + 1, run.reportData)]
             ELSE IF Retried(run.attempt, outcome)
             THEN run' = [run EXCEPT !.attempt = @ + 1]
             ELSE run' = [pc |-> "done", topic |-> run.topic,
                          result |-> Failure(MessageOf(outcome))]
    /\ UNCHANGED <<now, scoreVars, content_items, storeVars, selection, chatVars,
                   extraction, citations>>

\* Citation records made for a report id other than that of the report
\* written.
CitationRowsOtherReport(from, report, extracted) ==
    [k \in DOMAIN extracted |->
        [ id |-> from + k,
          report_id |-> report.id + 1,
          content_item_id |-> extracted[k].sourceId,
          citation_number |-> extracted[k].number,
          quoted_text |-> extracted[k].text,
          context |-> extracted[k].context ]]

\* The rows INSERT INTO citations creates from citationRecords.
CitationRows(from, report, extracted) ==
    [k \in DOMAIN extracted |->
        [ id |-> from + k,
          report_id |-> report.id,
          content_item_id |-> extracted[k].sourceId,
          citation_number |-> extracted[k].number,
          quoted_text |-> extracted[k].text,
          context |-> extracted[k].context ]]

\* A db.insertCitations that writes nothing.
insertCitationsNothing(rows, report, extracted) == rows

\* A db.insertCitations that files every citation under a row that is not
\* one of the report's sources.
insertCitationsForeignDocument(rows, report, extracted) ==
    rows \o [k \in DOMAIN extracted |->
               [CitationRows(Len(rows), report, extracted)[k]
                  EXCEPT !.content_item_id = 0]]

\* db.insertCitations applied to the table.
insertCitations(rows, report, extracted) ==
    rows \o CitationRows(Len(rows), report, extracted)

\* Step 8, db.insertCitations for a citationRecords that is not empty: one
\* attempt of Database.query on the INSERT.  What it throws reaches the
\* outer catch block.
InsertCitations ==
    /\ run.pc = "insertCitations"
    /\ \E outcome \in QueryOutcomes :
          /\ calls' = Called("insertCitations", outcome)
          /\ citations' = IF Applied(outcome)
                          THEN insertCitations(citations, run.report, run.extracted)
                          ELSE citations
          /\ IF outcome = "ok"
             THEN run' = [run EXCEPT !.pc = NextStep("insertCitations", TRUE), !.attempt = 1]
             ELSE IF Retried(run.attempt, outcome)
             THEN run' = [run EXCEPT !.attempt = @ + 1]
             ELSE run' = [pc |-> "done", topic |-> run.topic,
                          result |-> Failure(MessageOf(outcome))]
    /\ UNCHANGED <<now, scoreVars, content_items, storeVars, selection, chatVars,
                   extraction, reports>>

\* A result that names a PDF whether or not one was made.
SuccessWithPdfPath(report) ==
    [success |-> TRUE, report |-> [report EXCEPT !.pdf_path = <<"reports/", report.id, ".pdf">>]]

\* The result of a call that got past step 8.
Success(report) == [success |-> TRUE, report |-> report]

\* Step 9, pdfGenerator.generatePDF; its failure is caught and logged.
GeneratePDF ==
    /\ run.pc = "pdf"
    /\ \E outcome \in {"ok", "error"} :
          /\ calls' = Called("generatePDF", outcome)
          /\ IF outcome = "ok"
             THEN run' = [run EXCEPT !.pc = NextStep("pdf", FALSE), !.attempt = 1]
             ELSE run' = [pc |-> "done", topic |-> run.topic,
                          result |-> Success(run.report)]
    /\ UNCHANGED <<now, scoreVars, content_items, storeVars, selection, chatVars,
                   extraction, reports, citations>>

\* The path generatePDF returns.
PdfPath(report) == <<"reports/", report.id, ".pdf">>

\* UPDATE reports SET pdf_path = $1 WHERE id = $2 applied to the table.
updatePdfPath(rows, pdfPath, id) ==
    [i \in DOMAIN rows |->
        IF rows[i].id = id THEN [rows[i] EXCEPT !.pdf_path = pdfPath] ELSE rows[i]]

\* Step 9, the UPDATE of pdf_path: one attempt of Database.query; when it
\* returns, report.pdf_path is set; what it throws is caught and logged.
UpdatePdfPath ==
    /\ run.pc = "updatePdfPath"
    /\ \E outcome \in QueryOutcomes :
          /\ calls' = Called("updatePdfPath", outcome)
          /\ reports' = IF Applied(outcome)
                        THEN updatePdfPath(reports, PdfPath(run.report), run.report.id)
                        ELSE reports
          /\ IF outcome = "ok"
             THEN run' = [pc |-> NextStep("updatePdfPath", FALSE), topic |-> run.topic,
                          result |-> Success([run.report EXCEPT
                                                !.pdf_path = PdfPath(run.report)])]
             ELSE IF Retried(run.attempt, outcome)
             THEN run' = [run EXCEPT !.attempt = @ + 1]
             ELSE run' = [pc |-> "done", topic |-> run.topic,
                          result |-> Success(run.report)]
    /\ UNCHANGED <<now, scoreVars, content_items, storeVars, selection, chatVars,
                   extraction, citations>>

NextReport ==
    \/ FindSources
    \/ GenerateReportContent
    \/ GenerateExecutiveSummary
    \/ InsertReport
    \/ InsertCitations
    \/ GeneratePDF
    \/ UpdatePdfPath

SpecReport == InitReport /\ [][NextReport]_vars

\* The last call generateReport made.
LastCall == calls[Len(calls)]

\* The stored citations of a report.
CitationsOf(id) == SelectSeq(citations, LAMBDA c : c.report_id = id)

\* A row passes the selector's filters for a topic: the topic or one of its
\* keywords is found in it, it is dated within the window, and its composite
\* score is above 0.3.
Passes(row, topic) ==
    /\ row.composite_score > 30
    /\ sourceDate(row) > now - 30
    /\ \/ searchContentItems(<<row>>, topic, 1) # <<>>
       \/ \E k \in DOMAIN extractKeywords(topic) :
             searchContentItems(<<row>>, <<extractKeywords(topic)[k]>>, 1) # <<>>

\* C11: when the store answers and no row passes the selector's filters,
\* generateReport ends with the failure "No relevant sources found for
\* topic: <topic>", having made no call to the text-generation backend and
\* having written no report and no citation.
C11_NoSourcesFound ==
    ( /\ run.pc # "idle"
      /\ calls[1].outcome = "ok"
      /\ \A i \in DOMAIN content_items : ~Passes(content_items[i], run.topic) )
    => /\ run.pc = "done"
       /\ run.result = [success |-> FALSE,
                        error |-> <<"No relevant sources found for topic: ", run.topic>>]
       /\ Len(calls) = 1
       /\ reports = <<>>
       /\ citations = <<>>

\* The store holds a row about the topic whose score is 0.30: nothing passes
\* and the call has ended with the failure.
C11_Witness ==
    /\ run.pc = "done"
    /\ run.topic = <<"hiring">>
    /\ calls[1].outcome = "ok"
    /\ content_items # <<>>
    /\ \A i \in DOMAIN content_items : content_items[i].composite_score = 30
    /\ run.result.success = FALSE
    /\ reports = <<>>

\* C13: every stored citation is a citation of a stored report, and the row
\* it refers to is one of the ids in that report's source_ids.
C13_CitationsReferToSources ==
    \A k \in DOMAIN citations :
        \E r \in DOMAIN reports :
            /\ reports[r].id = citations[k].report_id
            /\ \E i \in DOMAIN reports[r].source_ids :
                  reports[r].source_ids[i] = citations[k].content_item_id

\* Citations of two different sources are stored for a report with two
\* sources.
C13_Witness ==
    /\ run.pc = "done"
    /\ Len(reports) = 1
    /\ Len(reports[1].source_ids) = 2
    /\ \E j, k \in DOMAIN citations :
          citations[j].content_item_id # citations[k].content_item_id

\* C14: the citation_count of every stored report is the number of citations
\* the extractor produces from its content and the sources selected for its
\* topic, and when generateReport has returned success it is the number of
\* citations stored for the report returned.
C14_CitationCount ==
    /\ \A r \in DOMAIN reports :
          reports[r].citation_count =
              Len(extractCitationsFromContent(
                      reports[r].content,
                      findRelevantSources(content_items, reports[r].topic,
                                          MaxSources, 30, now).sources).citations)
    /\ (run.pc = "done" /\ run.result.success)
          => run.result.report.citation_count = Len(CitationsOf(run.result.report.id))

\* C18: when the report was written and the write of its citations failed,
\* generateReport returns success with the stored report, and the report is
\* still stored.
C18_CitationFailureAbsorbed ==
    ( /\ run.pc = "done"
      /\ LastCall.op = "insertCitations" )
    => /\ run.result.success
       /\ \E r \in DOMAIN reports : reports[r] = run.result.report

\* The call ended on a failure of the PDF generation or of the write of the
\* PDF's path.
PdfFailed ==
    /\ run.pc = "done"
    /\ LastCall.op \in {"generatePDF", "updatePdfPath"}
    /\ LastCall.outcome # "ok"

\* C19 as stated: when the PDF generation or the write of its path fails,
\* generateReport returns success with the report, without a PDF path, and
\* the stored report is as it was written: it is the report returned.
C19_PdfFailureLeavesReportUnchanged ==
    PdfFailed
    => /\ run.result.success
       /\ run.result.report.pdf_path = None
       /\ \E r \in DOMAIN reports : reports[r] = run.result.report

\* C19, amended: when the PDF generation or the write of its path fails,
\* generateReport returns success with the report, without a PDF path; the
\* stored report differs from the report returned at most in pdf_path, and
\* only when an attempt of the UPDATE took effect before its connection
\* failed; and no step of the PDF generation or of the write of the path
\* changes the stored citations or any other column of a stored report.
C19_PdfFailureAbsorbed ==
    /\ [](PdfFailed
          => /\ run.result.success
             /\ run.result.report.pdf_path = None
             /\ \E r \in DOMAIN reports :
                   /\ [reports[r] EXCEPT !.pdf_path = None] = run.result.report
                   /\ (\A k \in DOMAIN calls :
                          ~(calls[k].op = "updatePdfPath"
                            /\ calls[k].outcome = "connection_lost"))
                      => reports[r] = run.result.report)
    /\ [][run.pc \in {"pdf", "updatePdfPath"}
          => /\ citations' = citations
             /\ Len(reports') = Len(reports)
             /\ \A r \in DOMAIN reports :
                   [reports'[r] EXCEPT !.pdf_path = None]
                       = [reports[r] EXCEPT !.pdf_path = None]]_vars

\* A report with citations was written, its PDF was made, and the UPDATE of
\* its path was refused.
C19_Witness ==
    /\ PdfFailed
    /\ LastCall.op = "updatePdfPath"
    /\ run.result.success
    /\ citations # <<>>
    /\ \E r \in DOMAIN reports : reports[r] = run.result.report

\* C20: generateReport ends with a result, and when the source selection or
\* the primary text generation failed the result is a failure with the
\* message of the error, and no report and no citation is stored.
C20_FailuresAreResults ==
    run.pc = "done"
    => /\ run.result.success \in BOOLEAN
       /\ (LastCall = [op |-> "findRelevantSources", outcome |-> "error"])
             => /\ run.result = [success |-> FALSE, error |-> MessageOf("error")]
                /\ reports = <<>>
                /\ citations = <<>>
       /\ (LastCall = [op |-> "generateReportContent", outcome |-> "error"])
             => /\ run.result.success = FALSE
                /\ run.result.error[1] = "Failed to generate content: "
                /\ Len(run.result.error) = 2
                /\ reports = <<>>
                /\ citations = <<>>

\* The text generation failed after sources were selected.
C20_Witness ==
    /\ run.pc = "done"
    /\ Len(calls) = 2
    /\ LastCall = [op |-> "generateReportContent", outcome |-> "error"]
    /\ run.result.success = FALSE

\* The summary call of this generateReport failed.
SummaryFailed ==
    /\ Len(calls) >= 3
    /\ calls[3] = [op |-> "generateExecutiveSummary", outcome |-> "error"]

\* C21: when the primary generation succeeded and the summary call failed,
\* generateReport does not end there: the summary of the report data is the
\* fallback text with the number of sources in it, the next call is the
\* write of the report, and every report the call stores has that summary.
C21_SummaryFallback ==
    SummaryFailed
    => /\ calls[2] = [op |-> "generateReportContent", outcome |-> "ok"]
       /\ Len(calls) = 3
             => /\ run.pc = "insertReport"
                /\ Len(run.reportData.executive_summary) = 3
                /\ run.reportData.executive_summary[1] =
                      "Executive Summary: This research report analyzes recent developments in the Indian HR market based on "
                /\ run.reportData.executive_summary[2] = Len(run.sources)
       /\ Len(calls) >= 4 => calls[4].op = "insertReport"
       /\ \A r \in DOMAIN reports :
             /\ Len(reports[r].executive_summary) = 3
             /\ reports[r].executive_summary[2] = reports[r].source_count

\* The summary call failed and generateReport returned success with a stored
\* report of two sources whose summary is the fallback text.
C21_Witness ==
    /\ SummaryFailed
    /\ run.pc = "done"
    /\ run.result.success
    /\ Len(reports) = 1
    /\ reports[1].source_count = 2
    /\ reports[1].executive_summary = FallbackSummary(2)

\* C22: a citation is written only after the write of the report returned:
\* when the write of the report fails, generateReport returns a failure and
\* no citation is stored; every attempt to write citations comes after an
\* acknowledged write of the report; and every stored citation has the id of
\* a stored report.
C22_CitationsAfterReport ==
    /\ (run.pc = "done" /\ LastCall.op = "insertReport")
          => /\ run.result.success = FALSE
             /\ citations = <<>>
    /\ \A k \in DOMAIN calls :
          calls[k].op = "insertCitations"
          => \E j \in 1..(k - 1) : calls[j] = [op |-> "insertReport", outcome |-> "ok"]
    /\ \A k \in DOMAIN citations :
          \E r \in DOMAIN reports : reports[r].id = citations[k].report_id

\* The write of the report failed for a text that has citations.
C22_Witness ==
    /\ run.pc = "done"
    /\ LastCall = [op |-> "insertReport", outcome |-> "error"]
    /\ calls[2] = [op |-> "generateReportContent", outcome |-> "ok"]
    /\ run.result.success = FALSE
    /\ citations = <<>>

\* C23: a generateReport call stores at most one report, exactly one when it
\* returns success, and none when no source was selected or the generation
\* failed; and no step changes a column of a stored report other than
\* pdf_path.
C23_OneReportPerCall ==
    /\ [](/\ Len(reports) <= 1
          /\ (run.pc = "done" /\ run.result.success) => Len(reports) = 1
          /\ (run.pc = "done" /\ Len(calls) <= 2) => Len(reports) = 0)
    /\ [][\A r \in DOMAIN reports :
             /\ r \in DOMAIN reports'
             /\ [reports'[r] EXCEPT !.pdf_path = None]
                   = [reports[r] EXCEPT !.pdf_path = None]]_vars

\* The place of a call in the order of generateReport's text.
Rank(op) ==
    CASE op = "findRelevantSources" -> 1
      [] op = "generateReportContent" -> 2
      [] op = "generateExecutiveSummary" -> 3
      [] op = "insertReport" -> 4
      [] op = "insertCitations" -> 5
      [] op = "generatePDF" -> 6
      [] op = "updatePdfPath" -> 7

\* C27: the calls of one generateReport are made one after the other in the
\* order source selection, text generation, summary, write of the report,
\* write of the citations, PDF generation (only the attempts of one store
\* statement repeat a call); the text generation and the summary are each
\* called at most once, and a failed text generation ends the call.
C27_CallOrder ==
    /\ \A j, k \in DOMAIN calls :
          j < k => /\ Rank(calls[j].op) <= Rank(calls[k].op)
                   /\ Rank(calls[j].op) = Rank(calls[k].op)
                         => calls[j].op \in {"insertReport", "insertCitations", "updatePdfPath"}
    /\ \A k \in DOMAIN calls : k > 1 => Rank(calls[k - 1].op) >= Rank(calls[k].op) - 2
    /\ \A k \in DOMAIN calls :
          calls[k] = [op |-> "generateReportContent", outcome |-> "error"]
          => k = Len(calls) /\ run.pc = "done"
    /\ calls # <<>> => calls[1].op = "findRelevantSources"

\* A call that went through all six kinds of external call.
C27_Witness ==
    /\ run.pc = "done"
    /\ \A op \in {"findRelevantSources", "generateReportContent", "generateExecutiveSummary",
                  "insertReport", "insertCitations", "generatePDF"} :
          \E k \in DOMAIN calls : calls[k].op = op
    /\ \E k \in DOMAIN calls : calls[k] = [op |-> "insertCitations", outcome |-> "connection_error"]

(***************************************************************************)
(* SpecQuery: one call of Database.query.  Each attempt, pool.query        *)
(* returns rows or throws an error with a code and a message.              *)
(***************************************************************************)

\* The errors pool.query throws: the three codes and the two messages the
\* retry condition names, and errors it does not name.  A message is the
\* sequence of its phrases.
PoolErrors ==
    { [code |-> "ECONNRESET", message |-> <<"read ECONNRESET">>],
      [code |-> "ENOTFOUND", message |-> <<"getaddrinfo ENOTFOUND db">>],
      [code |-> "ETIMEDOUT", message |-> <<"connect ETIMEDOUT">>],
      [code |-> None, message |-> <<"Connection terminated", " unexpectedly">>],
      [code |-> None, message |-> <<"timeout: ", "connection timeout">>],
      [code |-> "ECONNREFUSED", message |-> <<"connect ECONNREFUSED">>],
      [code |-> "23505", message |-> <<"duplicate key value violates unique constraint">>],
      [code |-> "42601", message |-> <<"syntax error at or near">>] }

\* message.includes(phrase)
includes(message, phrase) == \E i \in DOMAIN message : message[i] = phrase

\* A Database.query that retries after every error.
shouldRetryAlways(attempt, error) == attempt < maxRetries

\* The condition of the catch block under which the loop continues.
shouldRetry(attempt, error) ==
    /\ attempt < maxRetries
    /\ \/ error.code = "ECONNRESET"
       \/ error.code = "ENOTFOUND"
       \/ error.code = "ETIMEDOUT"
       \/ includes(error.message, "Connection terminated")
       \/ includes(error.message, "connection timeout")

InitQuery ==
    /\ now = 0
    /\ item = <<>>
    /\ label = None
    /\ first = <<>>
    /\ second = <<>>
    /\ content_items = <<>>
    /\ StoreIdle
    /\ selection = <<>>
    /\ ReportIdle
    /\ ChatIdle

\* Database.query is called: attempt = 1, nothing thrown yet.
Query ==
    /\ query.pc = "idle"
    /\ query' = [pc |-> "attempt", attempt |-> 1, thrown |-> <<>>]
    /\ UNCHANGED <<now, scoreVars, content_items, storeVars, selection, reportVars, chat>>

\* One pass of the loop: pool.query returns and so does Database.query, or
\* it throws, and the loop continues or Database.query throws lastError.
Attempt ==
    /\ query.pc = "attempt"
    /\ query.attempt <= maxRetries
    /\ \/ query' = [pc |-> "returned", attempt |-> query.attempt,
                    thrown |-> query.thrown, res |-> [rows |-> query.attempt]]
       \/ \E error \in PoolErrors :
             IF shouldRetry(query.attempt, error)
             THEN query' = [pc |-> "attempt", attempt |-> query.attempt + 1,
                            thrown |-> Append(query.thrown, error)]
             ELSE query' = [pc |-> "threw", attempt |-> query.attempt,
                            thrown |-> Append(query.thrown, error),
                            lastError |-> error]
    /\ UNCHANGED <<now, scoreVars, content_items, storeVars, selection, reportVars, chat>>

NextQuery == Query \/ Attempt

SpecQuery == InitQuery /\ [][NextQuery]_vars

\* The loop runs on: each attempt that can be made is made.
SpecQueryFair == SpecQuery /\ WF_vars(Attempt)

\* The errors the claim calls connection-class.
ConnectionClass(error) ==
    \/ error.code \in {"ECONNRESET", "ENOTFOUND", "ETIMEDOUT"}
    \/ \E i \in DOMAIN error.message :
          error.message[i] \in {"Connection terminated", "connection timeout"}

\* What holds of a Database.query call at each of its steps: its attempts
\* are at most maxRetries, every error it caught and went on after is of the
\* connection class, what it returns is the rows of the attempt that did not
\* throw, and what it throws is the error of its last attempt.
QueryAttempts ==
    query.pc # "idle"
    => /\ query.attempt \in 1..maxRetries
       /\ Len(query.thrown) <= maxRetries
       /\ query.pc = "attempt" => Len(query.thrown) = query.attempt - 1
       /\ \A k \in DOMAIN query.thrown :
             k < Len(query.thrown) \/ query.pc # "threw"
             => ConnectionClass(query.thrown[k])
       /\ query.pc = "returned"
             => /\ query.res = [rows |-> query.attempt]
                /\ Len(query.thrown) = query.attempt - 1
       /\ query.pc = "threw"
             => /\ Len(query.thrown) = query.attempt
                /\ query.lastError = query.thrown[Len(query.thrown)]
                /\ \/ query.attempt = maxRetries
                   \/ ~ConnectionClass(query.lastError)

\* C30: Database.query ends, after at most 3 attempts: it returns the rows
\* of the first attempt that does not throw; it makes another attempt only
\* after an error of the connection class (ECONNRESET, ENOTFOUND, ETIMEDOUT,
\* 'Connection terminated', 'connection timeout') and only when fewer than 3
\* attempts were made; and when it gives up it throws the error of its last
\* attempt.
C30_QueryRetry ==
    /\ []QueryAttempts
    /\ (query.pc = "attempt") ~> (query.pc \in {"returned", "threw"})

\* Database.query threw the timeout of its third attempt, after a reset
\* connection and a terminated one.
C30_Witness ==
    /\ query.pc = "threw"
    /\ query.attempt = 3
    /\ query.thrown[1].code = "ECONNRESET"
    /\ query.thrown[2].message = <<"Connection terminated", " unexpectedly">>
    /\ query.lastError.code = "ETIMEDOUT"

(***************************************************************************)
(* SpecChat: one call of ChatController.handleMessage, from await to       *)
(* await, with the events it yields in between.                            *)
(***************************************************************************)

\* The analyses queryAnalyzer.analyze returns (it returns its defaults when
\* the backend fails, and does not throw).
Analyses ==
    { [topic |-> <<"hiring">>, max_sources |-> 15, time_range_days |-> 60],
      [topic |-> <<"remote", "work", "trends">>, max_sources |-> 22, time_range_days |-> 120],
      [topic |-> <<"budget">>, max_sources |-> 12, time_range_days |-> 60] }

\* The results generateReport returns: a stored report, with or without a
\* PDF path, or a failure with its message.
GenerationResults ==
    { Success([id |-> id, source_count |-> n, citation_count |-> c, pdf_path |-> path]) :
        id \in 1..2, n \in 1..MaxDocs, c \in 0..1,
        path \in {None, "reports/report.pdf"} }
    \cup { Failure(<<"No relevant sources found for topic: ", a.topic>>) : a \in Analyses }
    \cup { Failure(<<"Failed to generate content: ", "Request failed with status code 500">>),
           Failure(<<"statement refused">>) }

\* The events of the stream.
StatusEvent(stage) == [type |-> "status", stage |-> stage]

ContentEvent(content) == [type |-> "content", content |-> content]

ReportCompleteEvent(report) ==
    [type |-> "report_complete", stage |-> "complete",
     report |-> [id |-> report.id, source_count |-> report.source_count,
                 citation_count |-> report.citation_count, pdf_path |-> report.pdf_path]]

ErrorEvent(errorMessage) == [type |-> "error", message |-> errorMessage]

InitChat ==
    /\ now = 0
    /\ item = <<>>
    /\ label = None
    /\ first = <<>>
    /\ second = <<>>
    /\ content_items = <<>>
    /\ StoreIdle
    /\ selection = <<>>
    /\ ReportIdle
    /\ ChatIdle

\* Step 7, after report_complete was yielded: db.insertChatMessage of the
\* assistant's message returns and the generator ends, or it throws and the
\* catch block yields an error event.
afterReportComplete(events, outcome) ==
    IF outcome = "ok"
    THEN [pc |-> "done", events |-> events]
    ELSE [pc |-> "saveError",
          events |-> Append(events, ErrorEvent(<<"statement refused">>))]

\* Step 1: db.insertChatMessage of the user's message; then the status event
\* of step 2, or the error event of the catch block.
InsertUserMessage ==
    /\ chat.pc = "idle"
    /\ \E outcome \in {"ok", "error"} :
          chat' = IF outcome = "ok"
                  THEN [pc |-> "analyze",
                        events |-> <<StatusEvent("analyzing_query")>>]
                  ELSE [pc |-> "saveError",
                        events |-> <<ErrorEvent(<<"statement refused">>)>>]
    /\ UNCHANGED <<now, scoreVars, content_items, storeVars, selection, reportVars, query>>

\* Step 2: queryAnalyzer.analyze.
Analyze ==
    /\ chat.pc = "analyze"
    /\ \E analysis \in Analyses :
          chat' = [pc |-> "title", events |-> chat.events, analysis |-> analysis]
    /\ UNCHANGED <<now, scoreVars, content_items, storeVars, selection, reportVars, query>>

\* The update of the session title, whose failure is caught and logged; then
\* the content event of the analysis and the status event of step 3.
UpdateSessionTitle ==
    /\ chat.pc = "title"
    /\ \E outcome \in {"ok", "error"} :
          chat' = [pc |-> "research", analysis |-> chat.analysis,
                   titled |-> outcome = "ok",
                   events |-> chat.events \o
                       <<ContentEvent(chat.analysis.topic), StatusEvent("searching")>>]
    /\ UNCHANGED <<now, scoreVars, content_items, storeVars, selection, reportVars, query>>

\* Step 3: reportGenerator.generateReport; on a failure result the Error
\* thrown reaches the catch block; on success, steps 4 to 6 yield their
\* events.
Research ==
    /\ chat.pc = "research"
    /\ \E result \in GenerationResults :
          chat' = IF ~result.success
                  THEN [pc |-> "saveError",
                        events |-> Append(chat.events, ErrorEvent(result.error))]
                  ELSE [pc |-> "saveAssistant",
                        events |-> chat.events \o
                            <<StatusEvent("synthesizing"),
                              ContentEvent(<<"## Research Complete!", result.report.source_count>>),
                              ReportCompleteEvent(result.report)>>]
    /\ UNCHANGED <<now, scoreVars, content_items, storeVars, selection, reportVars, query>>

\* Step 7: db.insertChatMessage of the assistant's message.
InsertAssistantMessage ==
    /\ chat.pc = "saveAssistant"
    /\ \E outcome \in {"ok", "error"} :
          chat' = afterReportComplete(chat.events, outcome)
    /\ UNCHANGED <<now, scoreVars, content_items, storeVars, selection, reportVars, query>>

\* The catch block's db.insertChatMessage of the error message, whose failure
\* is caught and logged.
InsertErrorMessage ==
    /\ chat.pc = "saveError"
    /\ \E outcome \in {"ok", "error"} :
          chat' = [pc |-> "done", events |-> chat.events, saved |-> outcome = "ok"]
    /\ UNCHANGED <<now, scoreVars, content_items, storeVars, selection, reportVars, query>>

NextChat ==
    \/ InsertUserMessage
    \/ Analyze
    \/ UpdateSessionTitle
    \/ Research
    \/ InsertAssistantMessage
    \/ InsertErrorMessage

SpecChat == InitChat /\ [][NextChat]_vars

\* The types (and stages) of the events yielded so far.
EventKinds ==
    [k \in DOMAIN chat.events |->
        IF chat.events[k].type = "status" THEN chat.events[k].stage
        ELSE chat.events[k].type]

\* C24: when handleMessage has ended, its events are either status
\* (analyzing_query), content, status(searching), status(synthesizing),
\* content, report_complete, in that order and with report_complete last,
\* or they end with one error event, the only one, and have no
\* report_complete; no stream has both report_complete and error.
C24_ChatEvents ==
    chat.pc = "done"
    => LET kinds == EventKinds
           has(kind) == \E k \in DOMAIN kinds : kinds[k] = kind
       IN  /\ \/ kinds = <<"analyzing_query", "content", "searching",
                           "synthesizing", "content", "report_complete">>
              \/ /\ kinds # <<>>
                 /\ kinds[Len(kinds)] = "error"
                 /\ Cardinality({k \in DOMAIN kinds : kinds[k] = "error"}) = 1
                 /\ ~has("report_complete")
           /\ ~(has("report_complete") /\ has("error"))

\* The rows the direct search and the keyword searches of a call found, in
\* the order they were found in, each keyword search capped at 10 rows.
Pool(c) ==
    selection[c].direct \o
    Flatten([i \in DOMAIN selection[c].keywords |->
                searchContentItems(content_items, <<selection[c].keywords[i]>>, 10)])

\* C25: the keyword expansion runs exactly when the direct search returned
\* fewer than maxSources / 2 rows.  When it runs, the candidates are the
\* rows of the direct search and of the keyword searches, each row once,
\* highest composite score first, cut to maxSources: a row that was found
\* and is not a candidate scores no higher than any candidate.  When it
\* does not run, the candidates are the direct results as they came.  The
\* list returned is made of the candidates that pass the recency and the
\* quality filter.
C25_ExpansionWhenUnderFilled ==
    \A c \in DOMAIN selection :
        LET sel == selection[c]
            cand == sel.candidates
            pool == Pool(c)
        IN  /\ sel.expanded <=> 2 * Len(sel.direct) < sel.maxSources
            /\ Len(sel.direct) <= sel.maxSources
            /\ ~sel.expanded => cand = sel.direct
            /\ sel.expanded =>
                  /\ \A j, k \in DOMAIN cand : j < k =>
                        /\ cand[j].id # cand[k].id
                        /\ cand[j].composite_score >= cand[k].composite_score
                  /\ \A j \in DOMAIN cand : \E k \in DOMAIN pool : pool[k] = cand[j]
                  /\ Len(cand) = Min(sel.maxSources,
                                     Cardinality({pool[k].id : k \in DOMAIN pool}))
                  /\ \A k \in DOMAIN pool :
                        \/ \E j \in DOMAIN cand : cand[j] = pool[k]
                        \/ \A j \in DOMAIN cand :
                              cand[j].composite_score >= pool[k].composite_score
            /\ \A j \in DOMAIN sel.sources :
                  /\ \E k \in DOMAIN cand : cand[k] = sel.sources[j]
                  /\ sel.sources[j].composite_score > 30
                  /\ sourceDate(sel.sources[j]) > now - sel.timeRangeDays
            /\ \A k \in DOMAIN cand :
                  (cand[k].composite_score > 30
                   /\ sourceDate(cand[k]) > now - sel.timeRangeDays)
                  => \E j \in DOMAIN sel.sources : sel.sources[j] = cand[k]

\* The direct search found one row of two, fewer than 3/2; the keyword
\* searches found both rows, one of them several times, and the candidates
\* are the two rows, the higher score first.
C25_Witness ==
    /\ selection # <<>>
    /\ selection[1].maxSources = 3
    /\ selection[1].expanded
    /\ Len(selection[1].direct) = 1
    /\ Len(Pool(1)) > 2
    /\ Len(selection[1].candidates) = 2
    /\ selection[1].candidates[1].composite_score
          > selection[1].candidates[2].composite_score
    /\ selection[1].candidates[1].id = 2

\* The keywords of a topic: its words in lower case and without punctuation
\* that are longer than 3 characters.
TopicKeywords(topic) ==
    { stripPunctuation(toLowerCase(topic[i])) : i \in DOMAIN topic }
        \ { w \in { stripPunctuation(toLowerCase(topic[i])) : i \in DOMAIN topic } :
              Len(w) <= 3 }

\* C26: when the keyword expansion runs, a search capped at 10 rows is made
\* for each keyword of the topic and for each expansion the synonym table
\* has for a keyword, once each, and for nothing else.
C26_EveryKeywordSearched ==
    \A c \in DOMAIN selection :
        selection[c].expanded =>
            LET searched == selection[c].keywords
                kws == TopicKeywords(selection[c].topic)
                syn == UNION { { expansions[k][i] : i \in DOMAIN expansions[k] } :
                                 k \in kws \cap DOMAIN expansions }
            IN  /\ { searched[i] : i \in DOMAIN searched } = kws \cup syn
                /\ \A i, j \in DOMAIN searched : i # j => searched[i] # searched[j]

\* C28: the sections of a text are one per heading line, titled with the
\* heading's text, in the order of the headings, and their bodies, one after
\* the other, are the lines of the text that are not headings, each once and
\* in order: also the lines before the first heading, and the lines of a
\* text without a heading.
C28_SectionsPartitionText ==
    \A e \in DOMAIN extraction :
        LET content == extraction[e].content
            sections == extraction[e].sections
            headings == SelectSeq(content, LAMBDA line : headerMatch(line) # <<>>)
            bodies == SelectSeq(content, LAMBDA line : headerMatch(line) = <<>>)
        IN  /\ [k \in DOMAIN sections |-> sections[k].title]
                  = [k \in DOMAIN headings |-> headerMatch(headings[k])[2]]
            /\ Flatten([k \in DOMAIN sections |-> sections[k].content]) = bodies

\* C29: the number of citations the estimator's density term is computed
\* from is the citation_count of the report, the number of citations the
\* extractor produced from the same text and sources.
C29_EstimatorCountsCitations ==
    \A e \in DOMAIN extraction :
        extraction[e].citationsCounted = Len(extraction[e].citations)

====
